---- MODULE Spec2Model ----
(***************************************************************************)
(* Phase-gated load generation of locustfile_callva.py.                    *)
(*                                                                         *)
(* Four user classes share two module globals, calls_created_per_org and   *)
(* created_call_ids, and one lock, org_lock.  A step of the model is one   *)
(* access of a user to shared state (the lock, the counter map, the ID     *)
(* list, the clock, the HTTP server); statements that touch only the       *)
(* user's own attributes are folded into the step they follow.             *)
(***************************************************************************)
EXTENDS Integers, Sequences, FiniteSets, TLC

\* ------------------------------------------------------------------------
\* Bounds of the model
\* ------------------------------------------------------------------------

\* The quota. The source sets 350 (line 69); the gate and the creation loop
\* only compare the counter with it, so the model runs it scaled down.
MAX_CALLS_PER_ORG == 2

\* time.time() when the run starts, the seconds one step of the clock
\* advances, and the number of clock steps modelled.
StartTime == 100
ClockStep == 15
Horizon == 2

\* ------------------------------------------------------------------------
\* Program constants
\* ------------------------------------------------------------------------

\* Seconds between two requests of one ReadScheduledUser (line 267).
THROTTLE_SECONDS == 30

\* API_CREDENTIALS: the org names (the tokens are paired one to one with them).
API_CREDENTIALS == {"LoadTest1", "LoadTest2", "LoadTest3"}

\* The simulated users, by class.
Creators == {"c1", "c2"}
Updaters == {"u1"}
Schedulers == {"s1", "s2"}
Heavies == {"h1"}
Phase2Users == Updaters \cup Schedulers \cup Heavies
Users == Creators \cup Phase2Users

\* A user the run did not spawn has no org.
NotSpawned == "-"
\* org_lock when nobody holds it.
Unlocked == "-"

\* A missing or falsy field of a body (None, "", 0), and no call_id at all.
None == <<>>

\* The identifiers the server gives to calls created with the token of `org`:
\* an identifier names the org whose token created the call.
Serials == {"a"}
IssuedIds(org) == {<<org, n>> : n \in Serials}

MaxTime == StartTime + Horizon * ClockStep

VARIABLES
    org_name,               \* user -> the org on_start bound it to
    calls_created_per_org,  \* org -> calls created so far
    created_call_ids,       \* the shared list of identifiers
    org_lock,               \* the holder of org_lock, or Unlocked
    pc,                     \* user -> where its task invocation stands
    call_id,                \* user -> local call_id of the invocation, or None
    reg,                    \* creator -> counter value read by the += in progress
    my_call_ids,            \* creator -> self.my_call_ids
    last_execution,         \* scheduler -> self.last_execution
    now,                    \* time.time()
    last,                   \* what the step just taken did, as the framework sees it
    has_skipped,            \* creator -> it has found its org at quota before
    issued_at,              \* scheduler -> when it last issued a request (0: never)
    returned_ids,           \* identifiers that 200/201 creation responses have carried
    sent,                   \* user -> HTTP requests its invocation in progress has issued
    succeeded_at            \* scheduler -> issue time of its last request answered 200 (0: none)

vars == <<org_name, calls_created_per_org, created_call_ids, org_lock, pc,
          call_id, reg, my_call_ids, last_execution, now,
          last, has_skipped, issued_at, returned_ids, sent, succeeded_at>>

Spawned(u) == org_name[u] # NotSpawned

\* self.my_call_ids: CreateCallUser.on_start makes one (line 93), the
\* on_start of the other classes makes none.
LocalIds(u) == IF u \in Creators THEN my_call_ids[u] ELSE <<>>

\* ------------------------------------------------------------------------
\* The HTTP server, as the tasks see it
\* ------------------------------------------------------------------------

Statuses == {200, 201, 204, 404, 500}

\* The response bodies that can answer a creation by a user of `org`.
\* json: whether response.json() parses the body and to what; id, call_id:
\* the top-level fields; data: the "data" field, a dict with an id (None: no
\* "data" field, or no id in it) or something that is no dict.
Bodies(org) ==
    {[json |-> j, id |-> None, call_id |-> None, data |-> [dict |-> TRUE, id |-> None]] :
        j \in {"invalid", "array"}}
    \cup
    {[json |-> "object", id |-> a, call_id |-> b, data |-> d] :
        a \in {None} \cup IssuedIds(org), b \in {None} \cup IssuedIds(org),
        d \in {[dict |-> FALSE, id |-> None]}
               \cup {[dict |-> TRUE, id |-> i] : i \in {None} \cup IssuedIds(org)}}

\* Python's `x or y`: x when x is truthy, else y.
PyOr(x, y) == IF x # None THEN x ELSE y

\* Lines 136-137 raise: the body is no JSON, or data is no dict (data.get), or
\* the third operand of the `or` chain is reached and data["data"] is no dict.
ParseRaises(body) ==
    \/ body.json # "object"
    \/ /\ body.id = None
       /\ body.call_id = None
       /\ ~body.data.dict

\* Line 137: data.get("id") or data.get("call_id") or data.get("data", {}).get("id")
ExtractCallId(body) == PyOr(body.id, PyOr(body.call_id, body.data.id))

\* Variant of the test below: any 2xx status taken for a creation.
CreateStatusAny2xx(st) == st >= 200 /\ st < 300

\* Line 134.
CreateStatusOk(st) == st = 201 \/ st = 200

\* The identifiers a response shows to a reader of the wire: those in the
\* three known places of a 200/201 JSON object.
CarriedIds(st, body) ==
    IF st \in {200, 201} /\ body.json = "object"
    THEN ({body.id, body.call_id} \cup (IF body.data.dict THEN {body.data.id} ELSE {}))
         \ {None}
    ELSE {}

\* ------------------------------------------------------------------------
\* What a step reports
\* ------------------------------------------------------------------------

\* what: "request" (an HTTP request leaves), "success" / "failure"
\* (response.success() / response.failure()), "skip" (the task returns
\* without a request), "." (nothing the framework sees).
Event(u, what, id, st) == [user |-> u, what |-> what, id |-> id, status |-> st]
Quiet == Event("-", ".", None, 0)

\* ------------------------------------------------------------------------
\* The phase gate
\* ------------------------------------------------------------------------

\* Variant of the check below: `==` in place of `>=`.
QuotaReachedExact(org) == calls_created_per_org[org] = MAX_CALLS_PER_ORG

\* Variant of the check below: `>` in place of `>=`.
QuotaReachedStrict(org) == calls_created_per_org[org] > MAX_CALLS_PER_ORG

\* Variant of the check below: creation stops for every tenant once any
\* tenant is at quota.
QuotaReachedAnyOrg(org) ==
    \E o \in API_CREDENTIALS : calls_created_per_org[o] >= MAX_CALLS_PER_ORG

\* Line 121: the Create side of the gate.
QuotaReached(org) == calls_created_per_org[org] >= MAX_CALLS_PER_ORG

\* Variant of the gate below: open one call early.
Phase1IncompleteOffByOne(org) ==
    calls_created_per_org[org] < MAX_CALLS_PER_ORG - 1

\* Variant of the gate below: `<=` in place of `<`.
Phase1IncompleteInclusive(org) == calls_created_per_org[org] <= MAX_CALLS_PER_ORG

\* Variant of the gate below: one gate for all tenants, open once any tenant
\* is at quota.
Phase1IncompleteGlobal(org) ==
    \A o \in API_CREDENTIALS : calls_created_per_org[o] < MAX_CALLS_PER_ORG

\* Lines 199, 262, 327: the Phase-2 side of the gate.
Phase1Incomplete(org) == calls_created_per_org[org] < MAX_CALLS_PER_ORG

\* ------------------------------------------------------------------------
\* CreateCallUser.create_call
\* ------------------------------------------------------------------------

\* Variant of the test below: a lock that excludes nobody.
LockNeverHeld == TRUE

\* threading.Lock (line 72): `with org_lock:` blocks until nobody holds it.
LockFree == org_lock = Unlocked

\* Line 120: `with org_lock:` enters once the lock is free.
CreateEnter(c) ==
    /\ Spawned(c)
    /\ pc[c] = "idle"
    /\ LockFree
    /\ org_lock' = c
    /\ pc' = [pc EXCEPT ![c] = "check"]
    /\ last' = Quiet
    /\ UNCHANGED <<org_name, calls_created_per_org, created_call_ids, call_id, reg,
                   my_call_ids, last_execution, now, has_skipped, issued_at,
                   returned_ids>>
    /\ UNCHANGED succeeded_at
    /\ UNCHANGED sent

\* Lines 121-133: the quota check under the lock; at quota the task returns,
\* below it the lock is released and the POST leaves.
CreateCheck(c) ==
    /\ pc[c] = "check"
    /\ org_lock' = Unlocked
    /\ IF QuotaReached(org_name[c])
       THEN /\ pc' = [pc EXCEPT ![c] = "idle"]
            /\ last' = Event(c, "skip", None, 0)
            /\ has_skipped' = [has_skipped EXCEPT ![c] = TRUE]
            /\ UNCHANGED sent
       ELSE /\ pc' = [pc EXCEPT ![c] = "post"]
            /\ last' = Event(c, "request", None, 0)
            /\ sent' = [sent EXCEPT ![c] = @ + 1]
            /\ UNCHANGED has_skipped
    /\ UNCHANGED <<org_name, calls_created_per_org, created_call_ids, call_id, reg,
                   my_call_ids, last_execution, now, issued_at, returned_ids>>
    /\ UNCHANGED succeeded_at

\* Variant of the step below: no `if call_id:`, a parsed 200/201 body goes on
\* to the increment whether or not it holds an identifier.
CreateHandleNoIdCheck(c, st, body) ==
    /\ pc[c] = "post"
    /\ IF CreateStatusOk(st) /\ ~ParseRaises(body)
       THEN /\ pc' = [pc EXCEPT ![c] = "inc_enter"]
            /\ call_id' = [call_id EXCEPT ![c] = ExtractCallId(body)]
            /\ last' = Quiet
            /\ UNCHANGED sent
       ELSE /\ pc' = [pc EXCEPT ![c] = "idle"]
            /\ last' = Event(c, "failure", None, st)
            /\ sent' = [sent EXCEPT ![c] = 0]
            /\ UNCHANGED call_id
    /\ returned_ids' = returned_ids \cup CarriedIds(st, body)
    /\ UNCHANGED <<org_name, calls_created_per_org, created_call_ids, org_lock, reg,
                   my_call_ids, last_execution, now, has_skipped, issued_at>>
    /\ UNCHANGED succeeded_at

\* Lines 134-139, 158-166: the response arrives and is classified; one that
\* carries an identifier goes on to the increment.
CreateHandle(c, st, body) ==
    /\ pc[c] = "post"
    /\ IF CreateStatusOk(st) /\ ~ParseRaises(body) /\ ExtractCallId(body) # None
       THEN /\ pc' = [pc EXCEPT ![c] = "inc_enter"]
            /\ call_id' = [call_id EXCEPT ![c] = ExtractCallId(body)]
            /\ last' = Quiet
            /\ UNCHANGED sent
       ELSE /\ pc' = [pc EXCEPT ![c] = "idle"]
            /\ last' = Event(c, "failure", None, st)
            /\ sent' = [sent EXCEPT ![c] = 0]
            /\ UNCHANGED call_id
    /\ returned_ids' = returned_ids \cup CarriedIds(st, body)
    /\ UNCHANGED <<org_name, calls_created_per_org, created_call_ids, org_lock, reg,
                   my_call_ids, last_execution, now, has_skipped, issued_at>>
    /\ UNCHANGED succeeded_at

CreateResponse(c) ==
    \E st \in Statuses, body \in Bodies(org_name[c]) : CreateHandle(c, st, body)

\* Line 141: `with org_lock:` of the increment.
CreateIncEnter(c) ==
    /\ pc[c] = "inc_enter"
    /\ LockFree
    /\ org_lock' = c
    /\ pc' = [pc EXCEPT ![c] = "inc_read"]
    /\ last' = Quiet
    /\ UNCHANGED <<org_name, calls_created_per_org, created_call_ids, call_id, reg,
                   my_call_ids, last_execution, now, has_skipped, issued_at,
                   returned_ids>>
    /\ UNCHANGED succeeded_at
    /\ UNCHANGED sent

\* Line 142, first half: `+=` reads the counter.
CreateIncRead(c) ==
    /\ pc[c] = "inc_read"
    /\ reg' = [reg EXCEPT ![c] = calls_created_per_org[org_name[c]]]
    /\ pc' = [pc EXCEPT ![c] = "inc_write"]
    /\ last' = Quiet
    /\ UNCHANGED <<org_name, calls_created_per_org, created_call_ids, org_lock,
                   call_id, my_call_ids, last_execution, now, has_skipped, issued_at,
                   returned_ids>>
    /\ UNCHANGED succeeded_at
    /\ UNCHANGED sent

\* Lines 142-143, second half: `+=` writes the counter back; the lock is released.
CreateIncWrite(c) ==
    /\ pc[c] = "inc_write"
    /\ calls_created_per_org' =
           [calls_created_per_org EXCEPT ![org_name[c]] = reg[c] + 1]
    /\ reg' = [reg EXCEPT ![c] = 0]
    /\ org_lock' = Unlocked
    /\ pc' = [pc EXCEPT ![c] = "append"]
    /\ last' = Quiet
    /\ UNCHANGED <<org_name, created_call_ids, call_id, my_call_ids, last_execution,
                   now, has_skipped, issued_at, returned_ids>>
    /\ UNCHANGED succeeded_at
    /\ UNCHANGED sent

\* Variant of the step below: the second append goes to the shared list too,
\* in place of the user's own.
CreateAppendBothShared(c) ==
    /\ pc[c] = "append"
    /\ created_call_ids' = Append(Append(created_call_ids, call_id[c]), call_id[c])
    /\ call_id' = [call_id EXCEPT ![c] = None]
    /\ pc' = [pc EXCEPT ![c] = "idle"]
    /\ last' = Event(c, "success", call_id[c], 0)
    /\ UNCHANGED <<org_name, calls_created_per_org, org_lock, reg, last_execution,
                   now, has_skipped, issued_at, returned_ids, my_call_ids>>
    /\ UNCHANGED succeeded_at
    /\ sent' = [sent EXCEPT ![c] = 0]

\* Lines 146-157: the identifier goes to the shared list and to the user's
\* own list, and the response is reported as a success.
CreateAppend(c) ==
    /\ pc[c] = "append"
    /\ created_call_ids' = Append(created_call_ids, call_id[c])
    /\ my_call_ids' = [my_call_ids EXCEPT ![c] = Append(@, call_id[c])]
    /\ call_id' = [call_id EXCEPT ![c] = None]
    /\ pc' = [pc EXCEPT ![c] = "idle"]
    /\ last' = Event(c, "success", call_id[c], 0)
    /\ UNCHANGED <<org_name, calls_created_per_org, org_lock, reg, last_execution,
                   now, has_skipped, issued_at, returned_ids>>
    /\ UNCHANGED succeeded_at
    /\ sent' = [sent EXCEPT ![c] = 0]

\* ------------------------------------------------------------------------
\* UpdateCallUser.update_call_status
\* ------------------------------------------------------------------------

\* Lines 199-200: the gate, an unlocked read of the counter.
UpdateGate(u) ==
    /\ Spawned(u)
    /\ pc[u] = "idle"
    /\ IF Phase1Incomplete(org_name[u])
       THEN /\ last' = Event(u, "skip", None, 0)
            /\ UNCHANGED pc
       ELSE /\ pc' = [pc EXCEPT ![u] = "gate_open"]
            /\ last' = Quiet
    /\ UNCHANGED <<org_name, calls_created_per_org, created_call_ids, org_lock,
                   call_id, reg, my_call_ids, last_execution, now, has_skipped,
                   issued_at, returned_ids>>
    /\ UNCHANGED succeeded_at
    /\ UNCHANGED sent

\* Variant of the step below: no return on an empty list, the PUT leaves
\* with no identifier.
UpdatePickUnchecked(u) ==
    /\ pc[u] = "gate_open"
    /\ \E x \in {created_call_ids[i] : i \in 1..Len(created_call_ids)}
                \cup (IF created_call_ids = <<>> THEN {None} ELSE {}) :
        /\ call_id' = [call_id EXCEPT ![u] = x]
        /\ last' = Event(u, "request", x, 0)
    /\ pc' = [pc EXCEPT ![u] = "put"]
    /\ UNCHANGED <<org_name, calls_created_per_org, created_call_ids, org_lock, reg,
                   my_call_ids, last_execution, now, has_skipped, issued_at,
                   returned_ids>>
    /\ UNCHANGED succeeded_at
    /\ sent' = [sent EXCEPT ![u] = @ + 1]

\* Lines 203-220: with no identifier in the shared list the task returns;
\* otherwise random.choice picks one and the PUT leaves. (The new status,
\* another random.choice, only fills the payload.)
UpdatePick(u) ==
    /\ pc[u] = "gate_open"
    /\ IF created_call_ids = <<>>
       THEN /\ pc' = [pc EXCEPT ![u] = "idle"]
            /\ last' = Event(u, "skip", None, 0)
            /\ UNCHANGED <<call_id, sent>>
       ELSE \E i \in 1..Len(created_call_ids) :
            /\ call_id' = [call_id EXCEPT ![u] = created_call_ids[i]]
            /\ pc' = [pc EXCEPT ![u] = "put"]
            /\ last' = Event(u, "request", created_call_ids[i], 0)
            /\ sent' = [sent EXCEPT ![u] = @ + 1]
    /\ UNCHANGED <<org_name, calls_created_per_org, created_call_ids, org_lock, reg,
                   my_call_ids, last_execution, now, has_skipped, issued_at,
                   returned_ids>>
    /\ UNCHANGED succeeded_at

\* Lines 221-228: 200 and 204 are successes; 404 and everything else are
\* failures (they differ in the log line only).
UpdateOutcome(st) == IF st \in {200, 204} THEN "success" ELSE "failure"

\* Variant of the step below: a 404 takes the call off the org's counter.
UpdateHandleDecrements(u, st) ==
    /\ pc[u] = "put"
    /\ pc' = [pc EXCEPT ![u] = "idle"]
    /\ call_id' = [call_id EXCEPT ![u] = None]
    /\ last' = Event(u, UpdateOutcome(st), call_id[u], st)
    /\ calls_created_per_org' =
           IF st = 404
           THEN [calls_created_per_org EXCEPT ![org_name[u]] = @ - 1]
           ELSE calls_created_per_org
    /\ UNCHANGED <<org_name, created_call_ids, org_lock, reg, my_call_ids,
                   last_execution, now, has_skipped, issued_at, returned_ids>>
    /\ UNCHANGED succeeded_at
    /\ sent' = [sent EXCEPT ![u] = 0]

\* Variant of the step below: a failed PUT is sent once more before the
\* invocation gives up.
UpdateHandleRetries(u, st) ==
    /\ pc[u] = "put"
    /\ IF UpdateOutcome(st) = "failure" /\ sent[u] < 2
       THEN /\ last' = Event(u, "request", call_id[u], 0)
            /\ sent' = [sent EXCEPT ![u] = @ + 1]
            /\ UNCHANGED <<pc, call_id>>
       ELSE /\ pc' = [pc EXCEPT ![u] = "idle"]
            /\ call_id' = [call_id EXCEPT ![u] = None]
            /\ last' = Event(u, UpdateOutcome(st), call_id[u], st)
            /\ sent' = [sent EXCEPT ![u] = 0]
    /\ UNCHANGED <<org_name, calls_created_per_org, created_call_ids, org_lock, reg,
                   my_call_ids, last_execution, now, has_skipped, issued_at,
                   returned_ids>>
    /\ UNCHANGED succeeded_at

UpdateHandle(u, st) ==
    /\ pc[u] = "put"
    /\ pc' = [pc EXCEPT ![u] = "idle"]
    /\ call_id' = [call_id EXCEPT ![u] = None]
    /\ last' = Event(u, UpdateOutcome(st), call_id[u], st)
    /\ UNCHANGED <<org_name, calls_created_per_org, created_call_ids, org_lock, reg,
                   my_call_ids, last_execution, now, has_skipped, issued_at,
                   returned_ids>>
    /\ UNCHANGED succeeded_at
    /\ sent' = [sent EXCEPT ![u] = 0]

UpdateResponse(u) == \E st \in Statuses : UpdateHandle(u, st)

\* ------------------------------------------------------------------------
\* ReadScheduledUser.read_calls_scheduled
\* ------------------------------------------------------------------------

\* Lines 262-263.
SchedGate(s) ==
    /\ Spawned(s)
    /\ pc[s] = "idle"
    /\ IF Phase1Incomplete(org_name[s])
       THEN /\ last' = Event(s, "skip", None, 0)
            /\ UNCHANGED pc
       ELSE /\ pc' = [pc EXCEPT ![s] = "gate_open"]
            /\ last' = Quiet
    /\ UNCHANGED <<org_name, calls_created_per_org, created_call_ids, org_lock,
                   call_id, reg, my_call_ids, last_execution, now, has_skipped,
                   issued_at, returned_ids>>
    /\ UNCHANGED succeeded_at
    /\ UNCHANGED sent

\* Variant of the test below: the window cut to half.
TooSoonHalf(s, current_time) == 2 * (current_time - last_execution[s]) < THROTTLE_SECONDS

\* Line 267.
TooSoon(s, current_time) == current_time - last_execution[s] < THROTTLE_SECONDS

\* Variant of the step below: the stamp is taken before the test returns.
SchedThrottleStampsFirst(s) ==
    /\ pc[s] = "gate_open"
    /\ last_execution' = [last_execution EXCEPT ![s] = now]
    /\ IF TooSoon(s, now)
       THEN /\ pc' = [pc EXCEPT ![s] = "idle"]
            /\ last' = Event(s, "skip", None, 0)
            /\ UNCHANGED <<issued_at, sent>>
       ELSE /\ issued_at' = [issued_at EXCEPT ![s] = now]
            /\ pc' = [pc EXCEPT ![s] = "get"]
            /\ last' = Event(s, "request", None, 0)
            /\ sent' = [sent EXCEPT ![s] = @ + 1]
    /\ UNCHANGED <<org_name, calls_created_per_org, created_call_ids, org_lock,
                   call_id, reg, my_call_ids, now, has_skipped, returned_ids>>
    /\ UNCHANGED succeeded_at

\* Lines 266-289: the throttle; a task that passes it stamps last_execution
\* and the GET leaves.
SchedThrottle(s) ==
    /\ pc[s] = "gate_open"
    /\ IF TooSoon(s, now)
       THEN /\ pc' = [pc EXCEPT ![s] = "idle"]
            /\ last' = Event(s, "skip", None, 0)
            /\ UNCHANGED <<last_execution, issued_at, sent>>
       ELSE /\ last_execution' = [last_execution EXCEPT ![s] = now]
            /\ issued_at' = [issued_at EXCEPT ![s] = now]
            /\ pc' = [pc EXCEPT ![s] = "get"]
            /\ last' = Event(s, "request", None, 0)
            /\ sent' = [sent EXCEPT ![s] = @ + 1]
    /\ UNCHANGED <<org_name, calls_created_per_org, created_call_ids, org_lock,
                   call_id, reg, my_call_ids, now, has_skipped, returned_ids>>
    /\ UNCHANGED succeeded_at

\* Lines 290-294 and 351-355.
ReadOutcome(st) == IF st = 200 THEN "success" ELSE "failure"

SchedHandle(s, st) ==
    /\ pc[s] = "get"
    /\ pc' = [pc EXCEPT ![s] = "idle"]
    /\ last' = Event(s, ReadOutcome(st), None, st)
    /\ UNCHANGED <<org_name, calls_created_per_org, created_call_ids, org_lock,
                   call_id, reg, my_call_ids, last_execution, now, has_skipped,
                   issued_at, returned_ids>>
    /\ succeeded_at' = IF ReadOutcome(st) = "success"
                       THEN [succeeded_at EXCEPT ![s] = issued_at[s]]
                       ELSE succeeded_at
    /\ sent' = [sent EXCEPT ![s] = 0]

SchedResponse(s) == \E st \in Statuses : SchedHandle(s, st)

\* ------------------------------------------------------------------------
\* ReadHeavyUser.read_calls_heavy_load
\* ------------------------------------------------------------------------

\* Lines 327-328.
HeavyGate(h) ==
    /\ Spawned(h)
    /\ pc[h] = "idle"
    /\ IF Phase1Incomplete(org_name[h])
       THEN /\ last' = Event(h, "skip", None, 0)
            /\ UNCHANGED pc
       ELSE /\ pc' = [pc EXCEPT ![h] = "gate_open"]
            /\ last' = Quiet
    /\ UNCHANGED <<org_name, calls_created_per_org, created_call_ids, org_lock,
                   call_id, reg, my_call_ids, last_execution, now, has_skipped,
                   issued_at, returned_ids>>
    /\ UNCHANGED succeeded_at
    /\ UNCHANGED sent

\* Lines 331-350: the query is built and the GET leaves.
HeavyGet(h) ==
    /\ pc[h] = "gate_open"
    /\ pc' = [pc EXCEPT ![h] = "get"]
    /\ last' = Event(h, "request", None, 0)
    /\ UNCHANGED <<org_name, calls_created_per_org, created_call_ids, org_lock,
                   call_id, reg, my_call_ids, last_execution, now, has_skipped,
                   issued_at, returned_ids>>
    /\ UNCHANGED succeeded_at
    /\ sent' = [sent EXCEPT ![h] = @ + 1]

HeavyHandle(h, st) ==
    /\ pc[h] = "get"
    /\ pc' = [pc EXCEPT ![h] = "idle"]
    /\ last' = Event(h, ReadOutcome(st), None, st)
    /\ UNCHANGED <<org_name, calls_created_per_org, created_call_ids, org_lock,
                   call_id, reg, my_call_ids, last_execution, now, has_skipped,
                   issued_at, returned_ids>>
    /\ UNCHANGED succeeded_at
    /\ sent' = [sent EXCEPT ![h] = 0]

HeavyResponse(h) == \E st \in Statuses : HeavyHandle(h, st)

\* ------------------------------------------------------------------------
\* The clock
\* ------------------------------------------------------------------------

\* time.time() moves on between two steps.
Tick ==
    /\ now + ClockStep <= MaxTime
    /\ now' = now + ClockStep
    /\ last' = Quiet
    /\ UNCHANGED <<org_name, calls_created_per_org, created_call_ids, org_lock, pc,
                   call_id, reg, my_call_ids, last_execution, has_skipped,
                   issued_at, returned_ids>>
    /\ UNCHANGED succeeded_at
    /\ UNCHANGED sent

\* ------------------------------------------------------------------------
\* Specifications
\* ------------------------------------------------------------------------

\* The module globals (lines 61-72) and every user before its first task.
Globals ==
    /\ calls_created_per_org = [o \in API_CREDENTIALS |-> 0]
    /\ created_call_ids = <<>>
    /\ org_lock = Unlocked
    /\ pc = [u \in Users |-> "idle"]
    /\ call_id = [u \in Creators \cup Updaters |-> None]
    /\ reg = [c \in Creators |-> 0]
    /\ my_call_ids = [c \in Creators |-> <<>>]
    /\ last_execution = [s \in Schedulers |-> 0]
    /\ now = StartTime
    /\ last = Quiet
    /\ has_skipped = [c \in Creators |-> FALSE]
    /\ issued_at = [s \in Schedulers |-> 0]
    /\ returned_ids = {}
    /\ sent = [u \in Users |-> 0]
    /\ succeeded_at = [s \in Schedulers |-> 0]

\* on_start of the users in `run`: random.choice(API_CREDENTIALS) each.
Started(run) ==
    /\ org_name \in [Users -> API_CREDENTIALS \cup {NotSpawned}]
    /\ \A u \in Users : Spawned(u) <=> u \in run

\* One creator and one user of each Phase-2 class, under every action.
Init ==
    /\ Globals
    /\ Started({"c1", "u1", "s1", "h1"})

Next ==
    \/ \E c \in Creators : CreateEnter(c)
    \/ \E c \in Creators : CreateCheck(c)
    \/ \E c \in Creators : CreateResponse(c)
    \/ \E c \in Creators : CreateIncEnter(c)
    \/ \E c \in Creators : CreateIncRead(c)
    \/ \E c \in Creators : CreateIncWrite(c)
    \/ \E c \in Creators : CreateAppend(c)
    \/ \E u \in Updaters : UpdateGate(u)
    \/ \E u \in Updaters : UpdatePick(u)
    \/ \E u \in Updaters : UpdateResponse(u)
    \/ \E s \in Schedulers : SchedGate(s)
    \/ \E s \in Schedulers : SchedThrottle(s)
    \/ \E s \in Schedulers : SchedResponse(s)
    \/ \E h \in Heavies : HeavyGate(h)
    \/ \E h \in Heavies : HeavyGet(h)
    \/ \E h \in Heavies : HeavyResponse(h)
    \/ Tick

Spec == Init /\ [][Next]_vars

\* Two creators racing, and an updater reading what they write.
InitRace ==
    /\ Globals
    /\ Started({"c1", "c2", "u1"})

NextRace ==
    \/ \E c \in Creators : CreateEnter(c)
    \/ \E c \in Creators : CreateCheck(c)
    \/ \E c \in Creators : CreateResponse(c)
    \/ \E c \in Creators : CreateIncEnter(c)
    \/ \E c \in Creators : CreateIncRead(c)
    \/ \E c \in Creators : CreateIncWrite(c)
    \/ \E c \in Creators : CreateAppend(c)
    \/ \E u \in Updaters : UpdateGate(u)
    \/ \E u \in Updaters : UpdatePick(u)
    \/ \E u \in Updaters : UpdateResponse(u)

SpecRace == InitRace /\ [][NextRace]_vars

\* Two throttled readers behind one creator, with the clock running.
InitThrottle ==
    /\ Globals
    /\ Started({"c1", "s1", "s2"})

NextThrottle ==
    \/ \E c \in Creators : CreateEnter(c)
    \/ \E c \in Creators : CreateCheck(c)
    \/ \E c \in Creators : CreateResponse(c)
    \/ \E c \in Creators : CreateIncEnter(c)
    \/ \E c \in Creators : CreateIncRead(c)
    \/ \E c \in Creators : CreateIncWrite(c)
    \/ \E c \in Creators : CreateAppend(c)
    \/ \E s \in Schedulers : SchedGate(s)
    \/ \E s \in Schedulers : SchedThrottle(s)
    \/ \E s \in Schedulers : SchedResponse(s)
    \/ Tick

SpecThrottle == InitThrottle /\ [][NextThrottle]_vars

\* The ramp-up alone: only creators, every creation answered 200 or 201
\* with an identifier, every user scheduled again and again and every
\* waiter for org_lock served.
CreateResponseOk(c) ==
    \E st \in {200, 201}, body \in Bodies(org_name[c]) :
        /\ CarriedIds(st, body) # {}
        /\ ~ParseRaises(body)
        /\ CreateHandle(c, st, body)

InitRamp ==
    /\ Globals
    /\ Started({"c1", "c2"})

NextRamp ==
    \/ \E c \in Creators : CreateEnter(c)
    \/ \E c \in Creators : CreateCheck(c)
    \/ \E c \in Creators : CreateResponseOk(c)
    \/ \E c \in Creators : CreateIncEnter(c)
    \/ \E c \in Creators : CreateIncRead(c)
    \/ \E c \in Creators : CreateIncWrite(c)
    \/ \E c \in Creators : CreateAppend(c)

FairRamp ==
    \A c \in Creators :
        /\ SF_vars(CreateEnter(c))
        /\ SF_vars(CreateIncEnter(c))
        /\ WF_vars(CreateCheck(c))
        /\ WF_vars(CreateResponseOk(c))
        /\ WF_vars(CreateIncRead(c))
        /\ WF_vars(CreateIncWrite(c))
        /\ WF_vars(CreateAppend(c))

SpecRamp == InitRamp /\ [][NextRamp]_vars /\ FairRamp

\* One creator and one user of each Phase-2 class; every creation request
\* succeeds with an identifier. The clock stands at StartTime: the first
\* request of a reader needs no time to pass (last_execution starts at 0,
\* line 249).
InitUnlock ==
    /\ Globals
    /\ Started({"c1", "u1", "s1", "h1"})

NextUnlock ==
    \/ \E c \in Creators : CreateEnter(c)
    \/ \E c \in Creators : CreateCheck(c)
    \/ \E c \in Creators : CreateResponseOk(c)
    \/ \E c \in Creators : CreateIncEnter(c)
    \/ \E c \in Creators : CreateIncRead(c)
    \/ \E c \in Creators : CreateIncWrite(c)
    \/ \E c \in Creators : CreateAppend(c)
    \/ \E u \in Updaters : UpdateGate(u)
    \/ \E u \in Updaters : UpdatePick(u)
    \/ \E u \in Updaters : UpdateResponse(u)
    \/ \E s \in Schedulers : SchedGate(s)
    \/ \E s \in Schedulers : SchedThrottle(s)
    \/ \E s \in Schedulers : SchedResponse(s)
    \/ \E h \in Heavies : HeavyGate(h)
    \/ \E h \in Heavies : HeavyGet(h)
    \/ \E h \in Heavies : HeavyResponse(h)

\* Locust runs every user's task again and again (wait_time, lines 86, 180,
\* 242, 308) and every request gets its answer: each step of each user is
\* taken if it stays possible, and a `with org_lock:` that is possible again
\* and again is entered.
FairUnlock ==
    /\ FairRamp
    /\ \A u \in Updaters :
           WF_vars(UpdateGate(u)) /\ WF_vars(UpdatePick(u)) /\ WF_vars(UpdateResponse(u))
    /\ \A s \in Schedulers :
           WF_vars(SchedGate(s)) /\ WF_vars(SchedThrottle(s)) /\ WF_vars(SchedResponse(s))
    /\ \A h \in Heavies :
           WF_vars(HeavyGate(h)) /\ WF_vars(HeavyGet(h)) /\ WF_vars(HeavyResponse(h))

SpecUnlock == InitUnlock /\ [][NextUnlock]_vars /\ FairUnlock

\* ------------------------------------------------------------------------
\* Properties
\* ------------------------------------------------------------------------

CreatorsOf(org) == {c \in Creators : org_name[c] = org}

InFlight(u) == pc[u] \in {"put", "get"}

\* C1: whenever a Phase-2 user (update, read-scheduled, read-heavy) issues a
\* request, and for as long as that request is in flight, the counter of the
\* user's org is at or above the quota.
PhaseGateSafety ==
    /\ \A u \in Phase2Users :
           InFlight(u) => calls_created_per_org[org_name[u]] >= MAX_CALLS_PER_ORG
    /\ (last.what = "request" /\ last.user \in Phase2Users)
           => calls_created_per_org[org_name[last.user]] >= MAX_CALLS_PER_ORG

\* All three Phase-2 classes have a request in flight at once.
PhaseGateWitness ==
    /\ pc["u1"] = "put"
    /\ pc["s1"] = "get"
    /\ pc["h1"] = "get"

\* C2: no step lowers the counter of any org, so a gate that is open stays open.
CounterNeverDecreases ==
    [][\A o \in API_CREDENTIALS :
          /\ calls_created_per_org'[o] >= calls_created_per_org[o]
          /\ (calls_created_per_org[o] >= MAX_CALLS_PER_ORG
                 => calls_created_per_org'[o] >= MAX_CALLS_PER_ORG)]_vars

\* An update has just been answered 404 behind an open gate.
CounterNeverDecreasesWitness ==
    /\ last.user \in Updaters
    /\ last.what = "failure"
    /\ last.status = 404
    /\ calls_created_per_org[org_name[last.user]] >= MAX_CALLS_PER_ORG

\* C3: the counter of an org never exceeds the quota by more than the number
\* of Create users bound to the org.
BoundedOvershoot ==
    \A o \in API_CREDENTIALS :
        calls_created_per_org[o] <= MAX_CALLS_PER_ORG + Cardinality(CreatorsOf(o))

\* Two creators passed the check together and the counter went past the quota.
BoundedOvershootWitness ==
    \E o \in API_CREDENTIALS :
        /\ Cardinality(CreatorsOf(o)) = 2
        /\ calls_created_per_org[o] > MAX_CALLS_PER_ORG

\* C4: an org with exactly one Create user, every creation answered with an
\* identifier, under fair scheduling: the counter reaches the quota and then
\* equals it forever.
SoloCreatorStabilizes ==
    \A o \in API_CREDENTIALS :
        (Cardinality(CreatorsOf(o)) = 1) => <>[](calls_created_per_org[o] = MAX_CALLS_PER_ORG)

\* The single creator of an org has filled the quota and skipped since.
SoloCreatorWitness ==
    \E o \in API_CREDENTIALS :
        /\ Cardinality(CreatorsOf(o)) = 1
        /\ calls_created_per_org[o] = MAX_CALLS_PER_ORG
        /\ \A c \in CreatorsOf(o) : has_skipped[c]

SingleTenant(o) == \A c \in Creators : Spawned(c) /\ org_name[c] = o

AllCreatorsQuiet == \A c \in Creators : pc[c] \in {"idle", "check"}

CreateSkipAbsorbing ==
    /\ [][\A c \in Creators :
            (/\ pc[c] = "check"
             /\ calls_created_per_org[org_name[c]] >= MAX_CALLS_PER_ORG
             /\ pc'[c] # "check")
            => /\ pc'[c] = "idle"
               /\ last' = Event(c, "skip", None, 0)
               /\ org_lock' = Unlocked
               /\ UNCHANGED <<calls_created_per_org, created_call_ids, my_call_ids>>]_vars
    /\ [](\A c \in Creators : has_skipped[c] => pc[c] \in {"idle", "check"})

\* A creator that created calls and skipped before is at the check once more.
CreateSkipWitness ==
    \E c \in Creators :
        /\ has_skipped[c]
        /\ my_call_ids[c] # <<>>
        /\ pc[c] = "check"

\* C7: every identifier in created_call_ids was carried by a 200/201
\* creation response, and the list grows only by the append of a creation
\* reported as a success.
OnlySuccessfulIds ==
    /\ [](\A i \in 1..Len(created_call_ids) : created_call_ids[i] \in returned_ids)
    /\ [][created_call_ids' # created_call_ids
            => \E c \in Creators, x \in returned_ids :
                   /\ created_call_ids' = Append(created_call_ids, x)
                   /\ last' = Event(c, "success", x, 0)]_vars

\* With an identifier in the list, a creation has just failed on a 200
\* response that carried no identifier.
OnlySuccessfulIdsWitness ==
    /\ created_call_ids # <<>>
    /\ last.user \in Creators
    /\ last.what = "failure"
    /\ last.status = 200

\* C8: a ReadScheduledUser that issued a request at time T issues its next
\* one no earlier than T + 30.
ThrottleInterval ==
    [][\A s \in Schedulers :
          (pc[s] # "get" /\ pc'[s] = "get")
          => (issued_at[s] = 0 \/ now' >= issued_at[s] + THROTTLE_SECONDS)]_vars

\* One reader is turned away inside its 30 seconds while another reader has
\* issued a request inside those same 30 seconds.
ThrottleWitness ==
    \E s \in Schedulers, t \in Schedulers :
        /\ s # t
        /\ last = Event(s, "skip", None, 0)
        /\ issued_at[s] # 0
        /\ now > issued_at[s]
        /\ now < issued_at[s] + THROTTLE_SECONDS
        /\ issued_at[t] > issued_at[s]
        /\ issued_at[t] < issued_at[s] + THROTTLE_SECONDS

\* C9: while created_call_ids is empty no step of an update task sends a
\* request, reports a success or a failure, or changes shared state; the
\* task that finds the list empty returns.
UpdateSkipsOnEmptyList ==
    [][\A u \in Updaters :
          (created_call_ids = <<>> /\ (pc'[u] # pc[u] \/ last'.user = u))
          => /\ pc'[u] # "put"
             /\ last'.what \notin {"request", "success", "failure"}
             /\ (pc[u] = "gate_open" => pc'[u] = "idle" /\ last' = Event(u, "skip", None, 0))
             /\ UNCHANGED <<calls_created_per_org, created_call_ids, org_lock,
                            my_call_ids>>]_vars

\* The gate is open, the list is still empty, and the update task returned.
UpdateSkipsWitness ==
    \E u \in Updaters :
        /\ last = Event(u, "skip", None, 0)
        /\ created_call_ids = <<>>
        /\ calls_created_per_org[org_name[u]] >= MAX_CALLS_PER_ORG

\* How often x occurs in a list.
Occurrences(list, x) == Cardinality({i \in 1..Len(list) : list[i] = x})

\* C10: an update answered 404 for identifier X is reported as a failure and
\* X is taken out of the updating user's own list.
UpdateNotFoundDropsId ==
    [][\A u \in Updaters :
          (pc[u] = "put" /\ last'.user = u /\ last'.status = 404)
          => /\ last'.what = "failure"
             /\ Occurrences(LocalIds(u)', call_id[u]) < Occurrences(LocalIds(u), call_id[u])]_vars

\* ------------------------------------------------------------------------
\* C11: failed creations
\* ------------------------------------------------------------------------

\* The creation responses the taxonomy calls failed: a status outside 2xx, a
\* body that does not parse to an object, or a 200/201 whose body shows no
\* identifier in any of the three known places.
FailedCreation(st, body) ==
    \/ st < 200 \/ st >= 300
    \/ body.json # "object"
    \/ st \in {200, 201} /\ CarriedIds(st, body) = {}

\* C11: the step that handles a failed creation response reports a failure,
\* leaves the counters, the shared list and the user's own list as they were,
\* leaves org_lock not held by the user, and returns the user to where its next
\* create_call starts.
FailedCreationChangesNothing ==
    [][\A c \in {x \in Creators : pc[x] = "post" /\ pc'[x] # "post"}, st \in Statuses :
          \A body \in Bodies(org_name[c]) :
              (FailedCreation(st, body) /\ CreateHandle(c, st, body))
              => /\ last' = Event(c, "failure", None, st)
                 /\ pc'[c] = "idle"
                 /\ org_lock' # c
                 /\ UNCHANGED <<calls_created_per_org, created_call_ids,
                                my_call_ids>>]_vars

\* A creator that has one creation behind it has just got a 200 with no
\* identifier: the failure is reported and nothing else has moved.
FailedCreationWitness ==
    \E c \in Creators :
        /\ last = Event(c, "failure", None, 200)
        /\ pc[c] = "idle"
        /\ org_lock # c
        /\ Len(my_call_ids[c]) = 1
        /\ Len(created_call_ids) = 1
        /\ calls_created_per_org[org_name[c]] = 1


\* ------------------------------------------------------------------------
\* C12: no retry
\* ------------------------------------------------------------------------

\* C12: no task invocation of any user class has issued more than one HTTP
\* request, and the step that reports a response, success or failure, ends
\* the invocation without another request.
AtMostOneRequestPerInvocation ==
    /\ \A u \in Users : sent[u] <= 1
    /\ \A u \in Users : sent[u] = 1 <=> pc[u] \in {"post", "inc_enter", "inc_read",
                                                    "inc_write", "append", "put", "get"}
    /\ last.what \in {"success", "failure"} => pc[last.user] = "idle"

\* An update has just been reported as failed and its invocation is over with
\* the one request it sent, while two reads wait for the answer to theirs.
AtMostOneRequestWitness ==
    \E u \in Updaters, s \in Schedulers, h \in Heavies :
        /\ last.user = u /\ last.what = "failure" /\ last.status = 500
        /\ pc[u] = "idle" /\ sent[u] = 0
        /\ pc[s] = "get" /\ sent[s] = 1
        /\ pc[h] = "get" /\ sent[h] = 1


\* ------------------------------------------------------------------------
\* C13, C14: the throttle timestamp
\* ------------------------------------------------------------------------

\* C13: whenever a reader has no request in flight, its last_execution is the
\* issue time of its most recent request that was reported as a success (0 if
\* there is none): a request that ends in failure starts no throttle window.
LastExecutionIsLastSuccess ==
    \A s \in Schedulers : pc[s] # "get" => last_execution[s] = succeeded_at[s]


\* A step of reader s: its task moves or reports.
SchedStep(s) == pc'[s] # pc[s] \/ last'.user = s

\* C14: a read_calls_scheduled invocation that meets the counter below quota,
\* or fewer than 30 seconds since last_execution, returns with last_execution
\* as it was and no request; last_execution changes only in the step from
\* which the request leaves.
SkipKeepsLastExecution ==
    [][\A s \in Schedulers :
          /\ (SchedStep(s) /\ pc[s] = "idle"
                /\ calls_created_per_org[org_name[s]] < MAX_CALLS_PER_ORG)
             => /\ last' = Event(s, "skip", None, 0)
                /\ pc'[s] = "idle"
                /\ last_execution'[s] = last_execution[s]
          /\ (SchedStep(s) /\ pc[s] = "gate_open"
                /\ now - last_execution[s] < THROTTLE_SECONDS)
             => /\ last' = Event(s, "skip", None, 0)
                /\ pc'[s] = "idle"
                /\ last_execution'[s] = last_execution[s]
          /\ last_execution'[s] # last_execution[s]
             => /\ last' = Event(s, "request", None, 0)
                /\ pc'[s] = "get"]_vars

\* A reader that issued a request earlier has just been turned away by the
\* throttle, and its timestamp is still the time of that request.
SkipKeepsLastExecutionWitness ==
    \E s \in Schedulers :
        /\ last = Event(s, "skip", None, 0)
        /\ calls_created_per_org[org_name[s]] >= MAX_CALLS_PER_ORG
        /\ last_execution[s] # 0
        /\ last_execution[s] = issued_at[s]
        /\ now > last_execution[s]


\* ------------------------------------------------------------------------
\* C15: the increment under org_lock
\* ------------------------------------------------------------------------

\* The creations of tenant org whose increment section has completed: those
\* a creator of org has stored in its own list, and the one it is about to.
CompletedIncrements(org) ==
    Cardinality(UNION {{<<c, i>> : i \in 1..Len(my_call_ids[c])} : c \in CreatorsOf(org)})
    + Cardinality({c \in CreatorsOf(org) : pc[c] = "append"})

\* The users inside a `with org_lock:` section.
InLockSection == {c \in Creators : pc[c] \in {"check", "inc_read", "inc_write"}}

\* C15: with `+=` taken as a read step and a write step, every tenant's
\* counter is the number of its creations whose increment section has
\* completed, and at most one user is inside an org_lock section, the holder.
NoLostUpdates ==
    /\ \A org \in API_CREDENTIALS :
           calls_created_per_org[org] = CompletedIncrements(org)
    /\ Cardinality(InLockSection) <= 1
    /\ \A c \in InLockSection : org_lock = c

\* Two creators of one tenant are past their increments at the same time, one
\* section after the other, and the counter shows both.
NoLostUpdatesWitness ==
    \E c \in Creators, d \in Creators :
        /\ c # d
        /\ org_name[c] = org_name[d]
        /\ pc[c] = "append"
        /\ pc[d] = "append"
        /\ calls_created_per_org[org_name[c]] = 2


\* ------------------------------------------------------------------------
\* C16: whose calls an update targets
\* ------------------------------------------------------------------------

\* The identifiers that creators bound to tenant org have created.
CreatedBy(org) ==
    UNION {{my_call_ids[c][i] : i \in 1..Len(my_call_ids[c])} : c \in CreatorsOf(org)}

\* C16: every update request in flight, sent with the token of the updater's
\* tenant, targets an identifier created by a Create user of that tenant.
UpdateTargetsOwnTenant ==
    \A u \in Updaters : pc[u] = "put" => call_id[u] \in CreatedBy(org_name[u])


\* ------------------------------------------------------------------------
\* C17: Phase 2 is unlocked
\* ------------------------------------------------------------------------

\* C17: when every creation succeeds with an identifier and the users are
\* scheduled fairly, every update, read-scheduled and read-heavy user bound
\* to a tenant that has a Create user eventually issues a request.
Phase2EventuallyUnlocked ==
    \A u \in Phase2Users :
        (Spawned(u) /\ CreatorsOf(org_name[u]) # {}) => <>InFlight(u)

\* The three Phase-2 users share the creator's tenant and each has a request
\* in flight.
Phase2UnlockedWitness ==
    \E c \in Creators :
        /\ Spawned(c)
        /\ calls_created_per_org[org_name[c]] = MAX_CALLS_PER_ORG
        /\ \A u \in Phase2Users : Spawned(u) => org_name[u] = org_name[c] /\ InFlight(u)
        /\ \E u \in Updaters : Spawned(u)


\* ------------------------------------------------------------------------
\* C18: a tenant without a Create user
\* ------------------------------------------------------------------------

\* C18: when on_start bound no Create user to a tenant, the tenant's counter
\* stays at 0 and its Phase-2 users never get past the gate: they have no
\* request in flight and what they report is a skip, whatever the counters
\* of the other tenants are.
NoCreatorNoPhase2 ==
    \A u \in Phase2Users :
        (Spawned(u) /\ CreatorsOf(org_name[u]) = {})
        => /\ calls_created_per_org[org_name[u]] = 0
           /\ pc[u] = "idle"
           /\ sent[u] = 0
           /\ last.user = u => last = Event(u, "skip", None, 0)

\* A Phase-2 user of a tenant without a Create user has just skipped while
\* another tenant is at quota and has a Phase-2 request in flight.
NoCreatorNoPhase2Witness ==
    \E u \in Phase2Users, v \in Phase2Users :
        /\ Spawned(u)
        /\ CreatorsOf(org_name[u]) = {}
        /\ last = Event(u, "skip", None, 0)
        /\ Spawned(v)
        /\ calls_created_per_org[org_name[v]] >= MAX_CALLS_PER_ORG
        /\ InFlight(v)


\* ------------------------------------------------------------------------
\* C19: the counter leads the identifier list
\* ------------------------------------------------------------------------

RECURSIVE TotalCreated(_)
\* The sum of calls_created_per_org over the tenants in orgs.
TotalCreated(orgs) ==
    IF orgs = {}
    THEN 0
    ELSE LET o == CHOOSE x \in orgs : TRUE
         IN  calls_created_per_org[o] + TotalCreated(orgs \ {o})

\* The Create users between their increment and their append.
BetweenIncrementAndAppend == {c \in Creators : pc[c] = "append"}

\* C19: the shared list is never longer than the counters add up to, and it
\* is behind them by no more than the number of Create users that have
\* incremented and not yet appended.
CounterLeadsIdList ==
    /\ Len(created_call_ids) <= TotalCreated(API_CREDENTIALS)
    /\ TotalCreated(API_CREDENTIALS) - Len(created_call_ids)
           <= Cardinality(BetweenIncrementAndAppend)

\* An updater has found its gate open while the creation that brought its
\* tenant to quota has not appended its identifier yet.
CounterLeadsIdListWitness ==
    \E u \in Updaters, c \in Creators :
        /\ pc[u] = "gate_open"
        /\ org_name[c] = org_name[u]
        /\ pc[c] = "append"
        /\ calls_created_per_org[org_name[u]] = MAX_CALLS_PER_ORG
        /\ Len(created_call_ids) < MAX_CALLS_PER_ORG


\* ------------------------------------------------------------------------
\* C20: one quota per tenant
\* ------------------------------------------------------------------------

\* C20: a tenant's counter changes only in the step that completes a
\* successful creation of a Create user bound to that tenant, so no step of
\* a user of another tenant changes it; and whether a user passes its gate
\* depends on the counter of its own tenant alone.
PerTenantQuota ==
    [][/\ \A org \in API_CREDENTIALS :
             calls_created_per_org'[org] # calls_created_per_org[org]
             => \E c \in CreatorsOf(org) :
                    /\ pc[c] = "inc_write" /\ pc'[c] = "append"
                    /\ calls_created_per_org'[org] = calls_created_per_org[org] + 1
                    /\ \A other \in API_CREDENTIALS \ {org} :
                           calls_created_per_org'[other] = calls_created_per_org[other]
       /\ \A c \in Creators :
             (pc[c] = "check" /\ pc'[c] # "check")
             => (pc'[c] = "post"
                   <=> calls_created_per_org[org_name[c]] < MAX_CALLS_PER_ORG)
       /\ \A u \in Phase2Users :
             (pc[u] = "idle" /\ (pc'[u] # "idle" \/ last'.user = u))
             => (pc'[u] = "gate_open"
                   <=> calls_created_per_org[org_name[u]] >= MAX_CALLS_PER_ORG)]_vars

\* Two creators on two tenants: one tenant is at quota and serves an update,
\* the other is below it and its creator has just been let through.
PerTenantQuotaWitness ==
    \E c \in Creators, d \in Creators, u \in Updaters :
        /\ Spawned(c) /\ Spawned(d)
        /\ org_name[c] # org_name[d]
        /\ calls_created_per_org[org_name[c]] >= MAX_CALLS_PER_ORG
        /\ calls_created_per_org[org_name[d]] = 1
        /\ last = Event(d, "request", None, 0)
        /\ org_name[u] = org_name[c]
        /\ InFlight(u)

====
